---- MODULE Spec2Model ----
(***************************************************************************)
(* The semantic retrieval store of mission_control_mcp:                    *)
(*   utils/rag_utils.py   SimpleRAGStore (add_documents, search, clear),   *)
(*                        create_rag_store, semantic_search                *)
(*   tools/rag_search.py  search_documents, build_knowledge_base,          *)
(*                        multi_query_search, find_similar_documents       *)
(* A text is a sequence of one-character strings.  The sentence encoder    *)
(* and the FAISS flat index are external libraries: the encoder is a fixed *)
(* function from texts to integer vectors, the index an exact squared-L2   *)
(* scan.  Failures of the libraries are inputs of the actions.             *)
(***************************************************************************)
EXTENDS Integers, Sequences, FiniteSets, TLC

VARIABLES
    store,      \* the knowledge-base store a caller holds
    addFailed,  \* whether an add_documents on it has failed since it was made or cleared
    ret,        \* what the last call returned
    tiePolicy,  \* how the faiss build orders equal distances
    adding      \* where an add_documents running in another thread stands

vars == <<store, addFailed, ret, tiePolicy, adding>>

\* ------------------------------------------------------------ bounds
\* Longest corpus the knowledge-base store is grown to.
MaxDocs == 3
\* Longest document list of one call.
MaxBatch == 2
\* Largest top_k tried (the smallest is -1).
MaxTopK == 3
\* Longest query list of one multi_query_search call.
MaxQueries == 2

\* ------------------------------------------------------------ texts
A == <<"a">>
B == <<"b">>
AB == <<"a", "b">>
Empty == <<>>
Blank == <<" ">>

\* "a" followed by a space: another text with the vector of "a".
APad == <<"a", " ">>

DocTexts == {A, B}
\* The documents of search_documents and find_similar_documents.
ToolDocTexts == DocTexts \cup {APad}
QueryTexts == {Empty, Blank, A, AB}

RECURSIVE SeqsUpTo(_, _)
SeqsUpTo(S, n) ==
    IF n = 0 THEN {<<>>}
    ELSE LET shorter == SeqsUpTo(S, n - 1)
         IN  shorter \cup {Append(s, x) : s \in {t \in shorter : Len(t) = n - 1}, x \in S}

DocLists == SeqsUpTo(DocTexts, MaxBatch)
ToolDocLists == SeqsUpTo(ToolDocTexts, MaxBatch)
QueryLists == SeqsUpTo(QueryTexts, MaxQueries)
TopKs == -1 .. MaxTopK

Min(a, b) == IF a < b THEN a ELSE b

\* str.strip(): the text without its leading and trailing whitespace.
RECURSIVE LStrip(_)
LStrip(t) == IF t # <<>> /\ Head(t) = " " THEN LStrip(Tail(t)) ELSE t

RECURSIVE RStrip(_)
RStrip(t) ==
    IF t # <<>> /\ t[Len(t)] = " " THEN RStrip(SubSeq(t, 1, Len(t) - 1)) ELSE t

Strip(t) == RStrip(LStrip(t))

\* ------------------------------------------------------------ encoder
\* model.encode of one text: a vector of fixed dimension.  The encoder is
\* opaque; here it counts the letters, so that whitespace adds nothing and
\* texts that differ only in word order share a vector.
Count(t, c) == Cardinality({i \in 1 .. Len(t) : t[i] = c})

Embed(t) == <<Count(t, "a"), Count(t, "b")>>

\* model.encode(documents): one vector per text, in order.
Encode(texts) == [i \in 1 .. Len(texts) |-> Embed(texts[i])]

\* ------------------------------------------------------------ faiss.IndexFlatL2
\* The distance faiss reports for a missing neighbour (label -1) is the
\* largest float32, 3.4028235e38; any value above 20000 gives the same
\* rounded score, and this one stands for it.
FLT_MAX == 2000000000

SqDist(u, v) == (u[1] - v[1]) * (u[1] - v[1]) + (u[2] - v[2]) * (u[2] - v[2])

\* Whether the neighbour at label i comes before the one at label j.  Equal
\* distances are ordered by the library build: by ascending label in the
\* builds that compare (distance, label) pairs, otherwise as the heap leaves
\* them, for which descending label stands.
Before(xb, q, policy, i, j) ==
    LET di == SqDist(xb[i + 1], q)
        dj == SqDist(xb[j + 1], q)
    IN  \/ di < dj
        \/ di = dj /\ (IF policy = "id_asc" THEN i < j ELSE i > j)

\* index.search(q, k): the k nearest stored vectors as (distance, label)
\* pairs by ascending distance, labels 0-based, padded with (FLT_MAX, -1)
\* when fewer than k vectors are stored.
RECURSIVE Nearest(_, _, _, _, _)
Nearest(xb, q, policy, left, k) ==
    IF k <= 0 THEN <<>>
    ELSE IF left = {} THEN
        <<[distance |-> FLT_MAX, idx |-> -1]>> \o Nearest(xb, q, policy, left, k - 1)
    ELSE LET best == CHOOSE i \in left :
                        \A j \in left \ {i} : Before(xb, q, policy, i, j)
         IN  <<[distance |-> SqDist(xb[best + 1], q), idx |-> best]>>
                 \o Nearest(xb, q, policy, left \ {best}, k - 1)

IndexSearch(xb, q, policy, k) == Nearest(xb, q, policy, 0 .. Len(xb) - 1, k)

\* ------------------------------------------------------------ SimpleRAGStore
\* SimpleRAGStore(): no documents, no embeddings, index None, model None.
NewStore ==
    [documents |-> <<>>, embeddings |-> <<>>,
     index |-> [built |-> FALSE, xb |-> <<>>], model |-> FALSE]

\* What the libraries can do in one call: work, fail to load the encoder
\* (_get_model raises), fail to encode (model.encode raises), fail in faiss.
AddFaults == {"none", "load", "encode", "index"}
SearchFaults == {"none", "load", "encode"}
\* The encoder may also take longer than a caller is ready to wait ("slow")
\* and then answer; the calls on the held store are made with this outcome
\* too.
AddOutcomes == AddFaults \cup {"slow"}
SearchOutcomes == SearchFaults \cup {"slow"}
\* index.search with k = 0: refused by the builds that assert k > 0, an empty
\* answer in the others.
ZeroK == {"assert", "empty"}

ExtendDocumentsMutant(documents, docs) == docs \o documents

\* The position at which add_documents grows self.documents: before the
\* embeddings are computed.
ExtendDocuments(documents, docs) == documents \o docs

\* The vectors handed to index.add: the whole of self.embeddings.
AddedToIndex(embeddings, new_embeddings) == embeddings

AddDocumentsOnMutant(s, docs, fault) ==
    IF docs = <<>> THEN [store |-> s, status |-> "ok", encode_calls |-> 0]
    ELSE [store |-> [documents |-> s.documents \o docs,
                     embeddings |-> s.embeddings \o Encode(docs),
                     index |-> [built |-> TRUE,
                                xb |-> s.index.xb \o s.embeddings \o Encode(docs)],
                     model |-> TRUE],
          status |-> "ok",
          encode_calls |-> IF fault = "none" THEN 1 ELSE 2]

\* add_documents(documents) on store s; the result names the store after the
\* call, how the call ended and how often model.encode was called.
AddDocumentsOn(s, docs, fault) ==
    IF docs = <<>> THEN [store |-> s, status |-> "ok", encode_calls |-> 0]
    ELSE LET s1 == [s EXCEPT !.documents = ExtendDocuments(s.documents, docs)]
         IN  IF fault = "load" /\ ~s.model THEN
                 [store |-> s1, status |-> "EmbeddingError", encode_calls |-> 0]
             ELSE LET s2 == [s1 EXCEPT !.model = TRUE]
                  IN  IF fault = "encode" THEN
                          [store |-> s2, status |-> "EmbeddingError", encode_calls |-> 1]
                      ELSE LET new_embeddings == Encode(docs)
                               s3 == [s2 EXCEPT !.embeddings = @ \o new_embeddings]
                               s4 == [s3 EXCEPT !.index.built = TRUE]
                           IN  IF fault = "index" THEN
                                   [store |-> s4, status |-> "LibraryError",
                                    encode_calls |-> 1]
                               ELSE [store |->
                                        [s4 EXCEPT !.index.xb =
                                            @ \o AddedToIndex(s3.embeddings, new_embeddings)],
                                     status |-> "ok", encode_calls |-> 1]

ScoreMutant(distance) == IF distance = 0 THEN 10000 ELSE 10000 \div distance

\* round(1.0 / (1.0 + distance), 4) in units of 0.0001, ties to even.
Score(distance) ==
    LET den == 1 + distance
        q == 10000 \div den
        r == 10000 % den
    IN  IF 2 * r > den \/ (2 * r = den /\ q % 2 = 1) THEN q + 1 ELSE q

ClampTopKMutant(top_k, documents) == top_k

\* The clamp of top_k to the corpus length.
ClampTopK(top_k, documents) == Min(top_k, Len(documents))

\* self.documents[idx], a negative idx counting from the end.
DocumentAt(documents, idx) ==
    IF idx >= 0 THEN documents[idx + 1] ELSE documents[Len(documents) + idx + 1]

\* The rank given to the neighbour at position i (0-based) of the answer.
Rank(i) == i + 1

\* The loop that formats the neighbours: those whose label is below the
\* corpus length, each ranked by its position among all neighbours.
RECURSIVE FormatResults(_, _, _)
FormatResults(documents, found, i) ==
    IF i >= Len(found) THEN <<>>
    ELSE LET n == found[i + 1]
             rest == FormatResults(documents, found, i + 1)
         IN  IF n.idx < Len(documents) THEN
                 <<[rank |-> Rank(i), document |-> DocumentAt(documents, n.idx),
                    score |-> Score(n.distance), distance |-> n.distance]>> \o rest
             ELSE rest

NothingToSearchMutant(s) == FALSE

\* The guard of search that answers [] without encoding the query.
NothingToSearch(s) == ~s.index.built \/ Len(s.documents) = 0

SearchOnMutant(s, query, top_k, fault, zero, policy) ==
    IF NothingToSearch(s) THEN
        [store |-> s, status |-> "ok", results |-> <<>>,
         encode_calls |-> 0, index_searches |-> 0]
    ELSE LET q == Embed(query)
             k == ClampTopK(top_k, s.documents)
         IN  IF fault # "none" \/ k < 0 \/ (k = 0 /\ zero = "assert") THEN
                 [store |-> s, status |-> "EmbeddingError", results |-> <<>>,
                  encode_calls |-> 1, index_searches |-> 0]
             ELSE [store |-> [s EXCEPT !.model = TRUE,
                                       !.index.xb = Append(s.index.xb, q)],
                   status |-> "ok",
                   results |-> FormatResults(s.documents,
                                   IndexSearch(s.index.xb, q, policy, k), 0),
                   encode_calls |-> 1, index_searches |-> 1]

\* search(query, top_k) on store s.
SearchOn(s, query, top_k, fault, zero, policy) ==
    IF NothingToSearch(s) THEN
        [store |-> s, status |-> "ok", results |-> <<>>,
         encode_calls |-> 0, index_searches |-> 0]
    ELSE IF fault = "load" /\ ~s.model THEN
        [store |-> s, status |-> "EmbeddingError", results |-> <<>>,
         encode_calls |-> 0, index_searches |-> 0]
    ELSE LET s1 == [s EXCEPT !.model = TRUE]
         IN  IF fault = "encode" THEN
                 [store |-> s1, status |-> "EmbeddingError", results |-> <<>>,
                  encode_calls |-> 1, index_searches |-> 0]
             ELSE LET q == Embed(query)
                      k == ClampTopK(top_k, s.documents)
                  IN  IF k < 0 \/ (k = 0 /\ zero = "assert") THEN
                          [store |-> s1, status |-> "LibraryError", results |-> <<>>,
                           encode_calls |-> 1, index_searches |-> 1]
                      ELSE [store |-> s1, status |-> "ok",
                            results |-> FormatResults(s.documents,
                                            IndexSearch(s.index.xb, q, policy, k), 0),
                            encode_calls |-> 1, index_searches |-> 1]

ClearOnMutant(s) == [s EXCEPT !.documents = <<>>, !.embeddings = <<>>]

\* clear() on store s: the model stays loaded.
ClearOn(s) ==
    [s EXCEPT !.documents = <<>>, !.embeddings = <<>>,
              !.index = [built |-> FALSE, xb |-> <<>>]]

CreateRagStoreMutant(docs, fault) ==
    IF docs # <<>> THEN AddDocumentsOn(store, docs, fault)
    ELSE [store |-> store, status |-> "ok", encode_calls |-> 0]

\* create_rag_store(documents).
CreateRagStore(docs, fault) ==
    IF docs # <<>> THEN AddDocumentsOn(NewStore, docs, fault)
    ELSE [store |-> NewStore, status |-> "ok", encode_calls |-> 0]

\* semantic_search(query, documents, top_k): a store of its own, one search.
SemanticSearch(query, docs, top_k, addFault, searchFault, zero, policy) ==
    LET built == CreateRagStore(docs, addFault)
    IN  IF built.status # "ok" THEN
            [status |-> built.status, results |-> <<>>,
             encode_calls |-> built.encode_calls, index_searches |-> 0]
        ELSE LET r == SearchOn(built.store, query, top_k, searchFault, zero, policy)
             IN  [status |-> r.status, results |-> r.results,
                  encode_calls |-> built.encode_calls + r.encode_calls,
                  index_searches |-> r.index_searches]

\* ------------------------------------------------------------ rag_search.py
\* What a call returned, as the caller sees it, with the calls it made to the
\* libraries and what the libraries did in it (faults).  A field a call does
\* not set keeps its value here.
NoRet ==
    [op |-> "none", status |-> "none", query |-> <<>>, queries |-> <<>>,
     documents |-> <<>>, top_k |-> 0, results |-> <<>>, all_results |-> <<>>,
     total_documents |-> 0, returned_results |-> 0, total_queries |-> 0,
     target_document |-> <<>>, faults |-> <<>>, first |-> <<>>,
     encode_calls |-> 0, index_searches |-> 0, stores_built |-> 0,
     model_loads |-> 0, name |-> "",
     arguments |-> [dict |-> FALSE, items |-> <<>>], content |-> <<>>,
     emails |-> <<>>, total_emails |-> 0, intent_distribution |-> <<>>,
     severity |-> <<>>, cleanup_priority |-> ""]

\* How often a call on a store made SentenceTransformer(...): once when it
\* found self._model None and left it set, else not at all.
ModelLoads(before, after) == IF ~before.model /\ after.model THEN 1 ELSE 0

QueryIsEmptyMutant(query) == query = <<>>

\* `not query or not query.strip()`
QueryIsEmpty(query) == query = <<>> \/ Strip(query) = <<>>

\* `not documents or len(documents) == 0`
DocumentsAreEmpty(docs) == docs = <<>>

\* The checks search_documents makes before it searches, in order.
SearchDocumentsRejects(query, docs, top_k) ==
    QueryIsEmpty(query) \/ DocumentsAreEmpty(docs)

\* search_documents(query, documents, top_k).
SearchDocumentsRet(query, docs, top_k, addFault, searchFault, zero, policy) ==
    LET call == [NoRet EXCEPT !.op = "search_documents", !.query = query,
                              !.documents = docs, !.top_k = top_k,
                              !.faults = <<addFault, searchFault>>]
    IN  IF SearchDocumentsRejects(query, docs, top_k) THEN
            [call EXCEPT !.status = "ValueError"]
        ELSE LET r == SemanticSearch(query, docs, top_k, addFault, searchFault,
                                     zero, policy)
             IN  IF r.status # "ok" THEN
                     [call EXCEPT !.status = r.status, !.stores_built = 1,
                                  !.encode_calls = r.encode_calls,
                                  !.index_searches = r.index_searches]
                 ELSE [call EXCEPT !.status = "ok", !.stores_built = 1,
                                   !.total_documents = Len(docs),
                                   !.returned_results = Len(r.results),
                                   !.results = r.results,
                                   !.encode_calls = r.encode_calls,
                                   !.index_searches = r.index_searches]

QueryKeyMutant(idx) == idx

\* The number after "query_" in the key of the idx-th query (0-based).
QueryKey(idx) == idx + 1

\* d[k] = v on a dict.
Put(d, k, v) == [x \in DOMAIN d \cup {k} |-> IF x = k THEN v ELSE d[x]]

\* What the loop of multi_query_search records for one query: the results, or
\* the error the search raised.
QueryEntry(query, r) ==
    IF r.status = "ok"
    THEN [query |-> query, error |-> FALSE, results |-> r.results]
    ELSE [query |-> query, error |-> TRUE, results |-> <<>>]

RECURSIVE QueryLoopMutant(_, _, _, _, _, _, _, _)
QueryLoopMutant(s, queries, top_k, faults, zero, policy, idx, acc) ==
    IF idx >= Len(queries) THEN acc
    ELSE LET again == AddDocumentsOn(NewStore, s.documents, "none")
             r == SearchOn(again.store, queries[idx + 1], top_k, faults[idx + 1],
                           zero, policy)
         IN  QueryLoopMutant(s, queries, top_k, faults, zero, policy, idx + 1,
                 [all_results |->
                      Put(acc.all_results, QueryKey(idx), QueryEntry(queries[idx + 1], r)),
                  encode_calls |-> acc.encode_calls + again.encode_calls + r.encode_calls,
                  index_searches |-> acc.index_searches + r.index_searches])

\* The loop of multi_query_search from the idx-th query on: the dict of
\* entries with the calls made to the libraries.
RECURSIVE QueryLoop(_, _, _, _, _, _, _, _)
QueryLoop(s, queries, top_k, faults, zero, policy, idx, acc) ==
    IF idx >= Len(queries) THEN acc
    ELSE LET r == SearchOn(s, queries[idx + 1], top_k, faults[idx + 1], zero, policy)
         IN  QueryLoop(r.store, queries, top_k, faults, zero, policy, idx + 1,
                 [all_results |->
                      Put(acc.all_results, QueryKey(idx), QueryEntry(queries[idx + 1], r)),
                  encode_calls |-> acc.encode_calls + r.encode_calls,
                  index_searches |-> acc.index_searches + r.index_searches])

\* multi_query_search(queries, documents, top_k).
MultiQuerySearchRet(queries, docs, top_k, addFault, faults, zero, policy) ==
    LET call == [NoRet EXCEPT !.op = "multi_query_search", !.queries = queries,
                              !.documents = docs, !.top_k = top_k,
                              !.faults = faults]
    IN  IF queries = <<>> \/ docs = <<>> THEN [call EXCEPT !.status = "ValueError"]
        ELSE LET built == CreateRagStore(docs, addFault)
             IN  IF built.status # "ok" THEN
                     [call EXCEPT !.status = built.status, !.stores_built = 1,
                                  !.encode_calls = built.encode_calls]
                 ELSE LET done == QueryLoop(built.store, queries, top_k, faults, zero,
                                      policy, 0,
                                      [all_results |-> <<>>,
                                       encode_calls |-> built.encode_calls,
                                       index_searches |-> 0])
                      IN  [call EXCEPT !.status = "ok", !.stores_built = 1,
                                       !.total_queries = Len(queries),
                                       !.total_documents = Len(docs),
                                       !.all_results = done.all_results,
                                       !.encode_calls = done.encode_calls,
                                       !.index_searches = done.index_searches]

\* The length from which find_similar_documents cuts the echoed target.
PreviewLen == 200

\* A target of exactly that length, and one that is a character longer.
Full == [i \in 1 .. PreviewLen |-> "a"]
Long == Full \o <<"b">>

\* The targets of find_similar_documents.
TargetTexts == QueryTexts \cup {Full, Long}

PreviewMutant(t) == t

\* target_doc[:200] + "..." if len(target_doc) > 200 else target_doc
Preview(t) ==
    IF Len(t) > PreviewLen THEN SubSeq(t, 1, PreviewLen) \o <<".", ".", ".">> ELSE t

\* find_similar_documents(target_doc, documents, top_k).
FindSimilarDocumentsRet(target_doc, docs, top_k, addFault, searchFault, zero, policy) ==
    LET call == [NoRet EXCEPT !.op = "find_similar_documents", !.query = target_doc,
                              !.documents = docs, !.top_k = top_k,
                              !.faults = <<addFault, searchFault>>]
    IN  IF target_doc = <<>> \/ docs = <<>> THEN [call EXCEPT !.status = "ValueError"]
        ELSE LET r == SemanticSearch(target_doc, docs, top_k, addFault, searchFault,
                                     zero, policy)
             IN  IF r.status # "ok" THEN
                     [call EXCEPT !.status = r.status, !.stores_built = 1,
                                  !.encode_calls = r.encode_calls,
                                  !.index_searches = r.index_searches]
                 ELSE [call EXCEPT !.status = "ok", !.stores_built = 1,
                                   !.target_document = Preview(target_doc),
                                   !.total_documents = Len(docs),
                                   !.results = r.results,
                                   !.encode_calls = r.encode_calls,
                                   !.index_searches = r.index_searches]

\* ------------------------------------------------------------ mcp_server.py
\* The tools call_tool knows, each with the keys it reads with arguments[...].
Required ==
    [pdf_reader |-> {"file_path"}, text_extractor |-> {"text"},
     web_fetcher |-> {"url"}, rag_search |-> {"query", "documents"},
     data_visualizer |-> {"data"},
     file_converter |-> {"input_path", "output_format"},
     email_intent_classifier |-> {"email_text"}, kpi_generator |-> {"data"}]

ToolNames == DOMAIN Required
\* A name no branch of call_tool has.
UnknownName == "no_such_tool"
Names == ToolNames \cup {UnknownName}

\* The top_k of rag_search when the arguments have none.
DefaultTopK == 3

\* arguments: None, or a dict with some of the keys of the tool.  The values
\* matter for rag_search only; for the other tools they are opaque ("v").
NoneArguments == [dict |-> FALSE, items |-> <<>>]
\* A key that is there with one of the values of S (<<v>>), or is not (<<>>).
Optional(S) == {<<>>} \cup {<<v>> : v \in S}
Items(query, documents, top_k) ==
    [k \in (IF query # <<>> THEN {"query"} ELSE {}) \cup
            (IF documents # <<>> THEN {"documents"} ELSE {}) \cup
            (IF top_k # <<>> THEN {"top_k"} ELSE {}) |->
        IF k = "query" THEN query[1]
        ELSE IF k = "documents" THEN documents[1] ELSE top_k[1]]
RagArguments ==
    {Items(query, documents, top_k) :
        query \in Optional(QueryTexts), documents \in Optional(ToolDocLists),
        top_k \in Optional(TopKs)}
ArgumentsOf(name) ==
    {NoneArguments} \cup
    {[dict |-> TRUE, items |-> items] :
        items \in IF name = "rag_search" THEN RagArguments
                  ELSE IF name \in ToolNames
                       THEN {[k \in K |-> "v"] : K \in SUBSET Required[name]}
                       ELSE {<<>>}}

\* arguments.get(key, default)
Get(items, key, default) == IF key \in DOMAIN items THEN items[key] ELSE default

\* The dict search_documents returned, or the exception it raised.
RagResult(r) ==
    [status |-> r.status,
     result |-> IF r.status # "ok" THEN <<>>
                ELSE <<[query |-> r.query,
                        total_documents |-> r.total_documents,
                        returned_results |-> r.returned_results,
                        results |-> r.results]>>]

\* What the if/elif chain of call_tool leaves in `result`, or the exception
\* it ends with.  A tool other than rag_search returns or raises (outcome).
ToolResult(name, arguments, outcome, addFault, searchFault, zero, policy) ==
    IF name \notin ToolNames THEN [status |-> "ValueError", result |-> <<>>]
    ELSE IF ~arguments.dict THEN [status |-> "TypeError", result |-> <<>>]
    ELSE IF ~(Required[name] \subseteq DOMAIN arguments.items) THEN
        [status |-> "KeyError", result |-> <<>>]
    ELSE IF name = "rag_search" THEN
        RagResult(SearchDocumentsRet(arguments.items["query"],
                                     arguments.items["documents"],
                                     Get(arguments.items, "top_k", DefaultTopK),
                                     addFault, searchFault, zero, policy))
    ELSE IF outcome = "raises" THEN [status |-> "ToolError", result |-> <<>>]
    ELSE [status |-> "ok", result |-> <<name>>]

\* TextContent(type="text", text=...)
TextContent(text) == [type |-> "text", text |-> text]

\* The call as the client sees it, before the answer is in.
Called(name, arguments, r) ==
    [NoRet EXCEPT !.op = "call_tool", !.name = name,
                  !.arguments = arguments, !.status = r.status]

AnswerMutant(name, arguments, r) ==
    IF r.status = "ok"
    THEN [Called(name, arguments, r) EXCEPT
              !.content = <<TextContent(<<"json", r.result>>)>>]
    ELSE Called(name, arguments, r)

\* The end of call_tool: the JSON text of the result, or the text of the
\* except branch.
Answer(name, arguments, r) ==
    IF r.status = "ok"
    THEN [Called(name, arguments, r) EXCEPT
              !.content = <<TextContent(<<"json", r.result>>)>>]
    ELSE [Called(name, arguments, r) EXCEPT
              !.content = <<TextContent(<<"Error executing ", name, ": ", r.status>>)>>]

\* call_tool(name, arguments).
CallToolRet(name, arguments, outcome, addFault, searchFault, zero, policy) ==
    Answer(name, arguments,
           ToolResult(name, arguments, outcome, addFault, searchFault, zero, policy))

\* ------------------------------------------------ email_intent_classifier.py
\* An email is a sequence of words and blanks.  Of INTENT_PATTERNS the model
\* keeps three intents, in the order of the dict, and of their patterns the
\* words "please", "appreciate" and "thanks".
MaxEmails == 3

IntentOrder == <<"request", "feedback", "thank_you">>
Keywords ==
    [request |-> {"please"}, feedback |-> {"appreciate"},
     thank_you |-> {"thanks", "appreciate"}]

EmailTexts ==
    {<<>>, <<" ">>, <<"hello">>, <<"please">>, <<"appreciate">>,
     <<"thanks", " ", "please">>, <<"please", " ", "please">>}
EmailLists == SeqsUpTo(EmailTexts, MaxEmails)

\* The matches of the patterns of one intent, summed (re.findall).
Matches(email, intent) ==
    Cardinality({i \in 1 .. Len(email) : email[i] \in Keywords[intent]})

\* round(min(score / 3.0, 1.0), 3) in units of 0.001.
Confidence(matches) ==
    IF matches >= 3 THEN 1000 ELSE IF matches = 2 THEN 667 ELSE 333

\* sorted(intent_scores.items(), key=score, reverse=True): the intents that
\* matched, higher scores first, the order of the dict among equal scores.
SortedIntents(email) ==
    LET Top(intent) == Matches(email, intent) >= 3
        Two(intent) == Matches(email, intent) = 2
        One(intent) == Matches(email, intent) = 1
    IN  SelectSeq(IntentOrder, Top) \o SelectSeq(IntentOrder, Two)
            \o SelectSeq(IntentOrder, One)

\* sorted_intents[1:4] with the rounded scores.
Secondary(email, sorted) ==
    [i \in 1 .. Min(Len(sorted) - 1, 3) |->
        [intent |-> sorted[i + 1],
         confidence |-> Confidence(Matches(email, sorted[i + 1]))]]

\* classifier.classify(email_text) after its check, given the sorted intents.
Classified(email, sorted) ==
    IF sorted = <<>> THEN
        [intent |-> "general", confidence |-> 500, secondary_intents |-> <<>>]
    ELSE [intent |-> sorted[1], confidence |-> Confidence(Matches(email, sorted[1])),
          secondary_intents |-> Secondary(email, sorted)]

\* `not email_text or not email_text.strip()`
EmailIsEmpty(email) == email = <<>> \/ Strip(email) = <<>>

\* The entry the loop of classify_batch_emails appends for the email at idx
\* (0-based): the classification, or the error entry when classify raised.
Entry(email, idx) ==
    IF EmailIsEmpty(email) THEN
        [email_index |-> idx, error |-> "Email text cannot be empty",
         intent |-> "error", confidence |-> 0]
    ELSE Put(Classified(email, SortedIntents(email)), "email_index", idx)

BatchResultsMutant(emails) ==
    LET n == CHOOSE k \in 0 .. Len(emails) :
                 /\ \A i \in 1 .. k : ~EmailIsEmpty(emails[i])
                 /\ k < Len(emails) => EmailIsEmpty(emails[k + 1])
    IN  [i \in 1 .. n |-> Entry(emails[i], i - 1)]

\* The results list after the loop.
BatchResults(emails) == [i \in 1 .. Len(emails) |-> Entry(emails[i], i - 1)]

\* intent_distribution: how many results have each intent that occurs.
IntentDistribution(results) ==
    [intent \in {results[i].intent : i \in 1 .. Len(results)} |->
        Cardinality({i \in 1 .. Len(results) : results[i].intent = intent})]

\* classify_batch_emails(emails).
ClassifyBatchEmailsRet(emails, results) ==
    [NoRet EXCEPT !.op = "classify_batch_emails", !.status = "ok",
                  !.emails = emails, !.total_emails = Len(emails),
                  !.results = results,
                  !.intent_distribution = IntentDistribution(results)]

\* ------------------------------------------------- src/mcp_server.py (CleanEye)
\* The sum of the values of a function with a finite domain: sum(...) of a
\* list, and of the counts of a dict.
RECURSIVE SumOf(_, _)
SumOf(f, keys) ==
    IF keys = {} THEN 0
    ELSE LET k == CHOOSE x \in keys : TRUE IN f[k] + SumOf(f, keys \ {k})

\* round(n / d, ...) to the nearest unit, ties to even, for d > 0.
RoundDiv(n, d) ==
    IF 2 * (n % d) > d \/ (2 * (n % d) = d /\ (n \div d) % 2 = 1)
    THEN (n \div d) + 1 ELSE n \div d

MaxCount == 9
MaxAreas == 2

\* The arguments of analyze_area_severity: each key there or not.
Counts == -1 .. MaxCount
ImageAreas == {-100, 0, 100}
DetectionAreas == SeqsUpTo({2, 5, 10}, MaxAreas)
SeverityArguments ==
    {[detection_count |-> count, image_area |-> area, detection_areas |-> areas] :
        count \in Optional(Counts), area \in Optional(ImageAreas),
        areas \in Optional(DetectionAreas)}

\* args.get(key, default) on these arguments.
GivenOr(value, default) == IF value = <<>> THEN default ELSE value[1]

\* coverage_percent < percent, coverage_percent being
\* total / image_area * 100 for image_area > 0 and 0 otherwise.
CoverageBelow(total, image_area, percent) ==
    IF image_area > 0 THEN total * 100 < percent * image_area ELSE 0 < percent

SeverityScoreMutant(detection_count, total, image_area) ==
    IF detection_count = 0 THEN 0
    ELSE IF detection_count < 3 \/ CoverageBelow(total, image_area, 5) THEN 1
    ELSE IF detection_count < 8 /\ CoverageBelow(total, image_area, 15) THEN 2
    ELSE 3

\* The if/elif chain of _calculate_severity.
SeverityScore(detection_count, total, image_area) ==
    IF detection_count = 0 THEN 0
    ELSE IF detection_count < 3 \/ CoverageBelow(total, image_area, 5) THEN 1
    ELSE IF detection_count < 8 \/ CoverageBelow(total, image_area, 15) THEN 2
    ELSE 3

\* The level the chain sets with each score.
Level(score) ==
    IF score <= 1 THEN "clean" ELSE IF score = 2 THEN "moderate" ELSE "severe"

\* _calculate_severity(detection_count, image_area, detection_areas), given
\* the sum of the areas: density in units of 0.0001, coverage_percent in
\* units of 0.01.
CalculateSeverity(detection_count, image_area, total) ==
    [level |-> Level(SeverityScore(detection_count, total, image_area)),
     score |-> SeverityScore(detection_count, total, image_area),
     density |-> IF image_area > 0
                 THEN RoundDiv(detection_count * 10000000, image_area) ELSE 0,
     coverage_percent |-> IF image_area > 0
                          THEN RoundDiv(total * 10000, image_area) ELSE 0,
     detection_count |-> detection_count]

\* The cleanup priority analyze_area_severity gives a level.
Priority(level) ==
    IF level = "clean" THEN "low" ELSE IF level = "moderate" THEN "medium" ELSE "high"

\* What analyze_area_severity answers for a severity.
Analysis(arguments, severity) ==
    [NoRet EXCEPT !.op = "analyze_area_severity", !.status = "ok",
                  !.arguments = [dict |-> TRUE, items |-> arguments],
                  !.severity = <<severity>>,
                  !.cleanup_priority = Priority(severity.level)]

\* analyze_area_severity(args).
AnalyzeAreaSeverityRet(args) ==
    Analysis(args,
        CalculateSeverity(GivenOr(args.detection_count, 0),
                          GivenOr(args.image_area, 1),
                          SumOf(GivenOr(args.detection_areas, <<>>),
                                DOMAIN GivenOr(args.detection_areas, <<>>))))

\* ------------------------------------------------------------ actions
TiePolicies == {"id_asc", "id_desc"}

\* No add_documents is running.
NotAdding == [pc |-> "idle", docs |-> <<>>]

Init ==
    /\ store = NewStore
    /\ addFailed = FALSE
    /\ ret = NoRet
    /\ tiePolicy \in TiePolicies
    /\ adding = NotAdding

\* store.add_documents(docs) on the held store.
AddDocuments ==
    /\ ret.op = "none"
    /\ \E docs \in DocLists, fault \in AddOutcomes :
        /\ Len(store.documents) + Len(docs) <= MaxDocs
        /\ fault = "load" => ~store.model
        /\ docs = <<>> => fault = "none"
        /\ LET r == AddDocumentsOn(store, docs, fault)
           IN  /\ store' = r.store
               /\ addFailed' = (addFailed \/ r.status # "ok")
               /\ ret' = [NoRet EXCEPT !.op = "add_documents", !.status = r.status,
                                       !.documents = docs, !.faults = <<fault>>,
                                       !.encode_calls = r.encode_calls,
                                       !.model_loads = ModelLoads(store, r.store)]
        /\ UNCHANGED <<tiePolicy, adding>>

\* store.search(query, top_k) on the held store.
Search ==
    /\ ret.op = "none"
    /\ \E query \in QueryTexts, top_k \in TopKs, fault \in SearchOutcomes, zero \in ZeroK :
        /\ fault = "load" => ~store.model
        /\ fault = "slow" => ~NothingToSearch(store)
        /\ top_k # 0 => zero = "assert"
        /\ LET r == SearchOn(store, query, top_k, fault, zero, tiePolicy)
           IN  /\ store' = r.store
               /\ ret' = [NoRet EXCEPT !.op = "search", !.status = r.status,
                                       !.query = query, !.top_k = top_k,
                                       !.faults = <<fault>>,
                                       !.results = r.results,
                                       !.encode_calls = r.encode_calls,
                                       !.index_searches = r.index_searches,
                                       !.model_loads = ModelLoads(store, r.store)]
        /\ UNCHANGED <<addFailed, tiePolicy, adding>>

\* The caller repeats the search it has just made, query and top_k the same,
\* and keeps what the first call returned.
SearchAgain ==
    /\ ret.op = "search"
    /\ ret.first = <<>>
    /\ \E fault \in SearchFaults, zero \in ZeroK :
        /\ fault = "load" => ~store.model
        /\ ret.top_k # 0 => zero = "assert"
        /\ LET r == SearchOn(store, ret.query, ret.top_k, fault, zero, tiePolicy)
           IN  /\ store' = r.store
               /\ ret' = [ret EXCEPT !.status = r.status,
                                     !.faults = <<fault>>,
                                     !.results = r.results,
                                     !.encode_calls = r.encode_calls,
                                     !.index_searches = r.index_searches,
                                     !.model_loads = ModelLoads(store, r.store),
                                     !.first = <<[status |-> ret.status,
                                                  results |-> ret.results]>>]
        /\ UNCHANGED <<addFailed, tiePolicy, adding>>

\* store.clear() on the held store.
Clear ==
    /\ ret.op = "none"
    /\ store' = ClearOn(store)
    /\ addFailed' = FALSE
    /\ ret' = [NoRet EXCEPT !.op = "clear", !.status = "ok"]
    /\ UNCHANGED <<tiePolicy, adding>>

\* build_knowledge_base(documents): the caller holds the store it returns.
BuildKnowledgeBase ==
    /\ ret.op = "none"
    /\ \E docs \in DocLists, fault \in AddFaults :
        /\ docs = <<>> => fault = "none"
        /\ LET call == [NoRet EXCEPT !.op = "build_knowledge_base", !.documents = docs]
               built == CreateRagStore(docs, fault)
           IN  IF docs = <<>> THEN
                   /\ ret' = [call EXCEPT !.status = "ValueError"]
                   /\ UNCHANGED <<store, addFailed>>
               ELSE IF built.status # "ok" THEN
                   /\ ret' = [call EXCEPT !.status = built.status, !.stores_built = 1,
                                          !.encode_calls = built.encode_calls,
                                          !.model_loads = ModelLoads(NewStore, built.store)]
                   /\ UNCHANGED <<store, addFailed>>
               ELSE
                   /\ ret' = [call EXCEPT !.status = "ok", !.stores_built = 1,
                                          !.total_documents = Len(docs),
                                          !.encode_calls = built.encode_calls,
                                          !.model_loads = ModelLoads(NewStore, built.store)]
                   /\ store' = built.store
                   /\ addFailed' = FALSE
        /\ UNCHANGED <<tiePolicy, adding>>

\* The result is handed to the caller, who then makes the next call.
Respond ==
    /\ ret.op # "none"
    /\ ret' = NoRet
    /\ UNCHANGED <<store, addFailed, tiePolicy, adding>>

Next == AddDocuments \/ Search \/ SearchAgain \/ Clear \/ BuildKnowledgeBase \/ Respond

Spec == Init /\ [][Next]_vars

\* The library outcomes that can show in a call: nothing fails on an empty
\* document list or after the store could not be built, and the k = 0
\* behaviour of the build shows only when top_k is 0.
Relevant(docs, top_k, addFault, faults, zero) ==
    /\ docs = <<>> => addFault = "none"
    /\ (docs = <<>> \/ addFault # "none") => \A i \in DOMAIN faults : faults[i] = "none"
    /\ (top_k # 0 \/ docs = <<>> \/ addFault # "none") => zero = "assert"

\* The tools of rag_search.py, each on a store of its own; the server answers
\* one request before it takes the next.
SearchDocuments ==
    /\ ret.op = "none"
    /\ \E query \in QueryTexts, docs \in ToolDocLists, top_k \in TopKs,
          addFault \in AddFaults, searchFault \in {"none", "encode"}, zero \in ZeroK :
        /\ Relevant(docs, top_k, addFault, <<searchFault>>, zero)
        /\ ret' = SearchDocumentsRet(query, docs, top_k, addFault, searchFault, zero,
                                     tiePolicy)
        /\ UNCHANGED <<store, addFailed, tiePolicy, adding>>

MultiQuerySearch ==
    /\ ret.op = "none"
    /\ \E queries \in QueryLists, docs \in DocLists, top_k \in TopKs,
          addFault \in AddFaults, zero \in ZeroK :
        \E faults \in [1 .. Len(queries) -> {"none", "encode"}] :
            /\ Relevant(docs, top_k, addFault, faults, zero)
            /\ ret' = MultiQuerySearchRet(queries, docs, top_k, addFault, faults, zero,
                                          tiePolicy)
            /\ UNCHANGED <<store, addFailed, tiePolicy, adding>>

FindSimilarDocuments ==
    /\ ret.op = "none"
    /\ \E target_doc \in TargetTexts, docs \in ToolDocLists, top_k \in TopKs,
          addFault \in AddFaults, searchFault \in {"none", "encode"}, zero \in ZeroK :
        /\ Relevant(docs, top_k, addFault, <<searchFault>>, zero)
        /\ ret' = FindSimilarDocumentsRet(target_doc, docs, top_k, addFault,
                                          searchFault, zero, tiePolicy)
        /\ UNCHANGED <<store, addFailed, tiePolicy, adding>>

ToolNext == SearchDocuments \/ MultiQuerySearch \/ FindSimilarDocuments \/ Respond

ToolSpec == Init /\ [][ToolNext]_vars

\* ------------------------------------------------- two threads, one store
\* add_documents in a second thread, statement by statement; the first
\* thread calls search between any two of them.  Nothing in the class makes
\* one wait for the other.

\* A non-empty list arrives and self.documents is extended.
BeginAdd ==
    /\ adding.pc = "idle"
    /\ \E docs \in DocLists \ {<<>>} :
        /\ Len(store.documents) + Len(docs) <= MaxDocs
        /\ store' = [store EXCEPT !.documents = ExtendDocuments(@, docs)]
        /\ adding' = [pc |-> "encode", docs |-> docs]
    /\ UNCHANGED <<addFailed, ret, tiePolicy>>

\* The encoder is loaded and the batch is encoded.
EncodeBatch ==
    /\ adding.pc = "encode"
    /\ store' = [store EXCEPT !.model = TRUE]
    /\ adding' = [adding EXCEPT !.pc = "extend"]
    /\ UNCHANGED <<addFailed, ret, tiePolicy>>

\* self.embeddings is extended with the vectors of the batch.
ExtendEmbeddings ==
    /\ adding.pc = "extend"
    /\ store' = [store EXCEPT !.embeddings = @ \o Encode(adding.docs)]
    /\ adding' = [adding EXCEPT !.pc = "index"]
    /\ UNCHANGED <<addFailed, ret, tiePolicy>>

\* The index is created if there is none and the vectors are added to it.
AddToIndex ==
    /\ adding.pc = "index"
    /\ store' = [store EXCEPT !.index.built = TRUE,
                              !.index.xb = @ \o AddedToIndex(store.embeddings,
                                                             Encode(adding.docs))]
    /\ adding' = NotAdding
    /\ UNCHANGED <<addFailed, ret, tiePolicy>>

ConcNext == BeginAdd \/ EncodeBatch \/ ExtendEmbeddings \/ AddToIndex \/ Search \/ Respond

ConcSpec == Init /\ [][ConcNext]_vars

\* ------------------------------------------------------------- the server
\* A request to call_tool; the libraries matter when it reaches the search.
CallTool ==
    /\ ret.op = "none"
    /\ \E name \in Names :
        \E arguments \in ArgumentsOf(name), outcome \in {"returns", "raises"},
           addFault \in AddFaults, searchFault \in {"none", "encode"}, zero \in ZeroK :
            LET searches == /\ name = "rag_search"
                            /\ Required[name] \subseteq DOMAIN arguments.items
                runs == /\ name \in ToolNames \ {"rag_search"}
                        /\ Required[name] \subseteq DOMAIN arguments.items
            IN  /\ ~runs => outcome = "returns"
                /\ ~searches => addFault = "none" /\ searchFault = "none" /\ zero = "assert"
                /\ searches =>
                       Relevant(arguments.items["documents"],
                                Get(arguments.items, "top_k", DefaultTopK),
                                addFault, <<searchFault>>, zero)
                /\ ret' = CallToolRet(name, arguments, outcome, addFault, searchFault,
                                      zero, tiePolicy)
    /\ UNCHANGED <<store, addFailed, tiePolicy, adding>>

ServerNext == CallTool \/ Respond

ServerSpec == Init /\ [][ServerNext]_vars

\* ------------------------------------------------------- the email batch
ClassifyBatchEmails ==
    /\ ret.op = "none"
    /\ \E emails \in EmailLists :
        ret' = ClassifyBatchEmailsRet(emails, BatchResults(emails))
    /\ UNCHANGED <<store, addFailed, tiePolicy, adding>>

EmailNext == ClassifyBatchEmails \/ Respond

EmailSpec == Init /\ [][EmailNext]_vars

\* --------------------------------------------------- the CleanEye server
AnalyzeAreaSeverity ==
    /\ ret.op = "none"
    /\ \E args \in SeverityArguments : ret' = AnalyzeAreaSeverityRet(args)
    /\ UNCHANGED <<store, addFailed, tiePolicy, adding>>

SeverityNext == AnalyzeAreaSeverity \/ Respond

SeveritySpec == Init /\ [][SeverityNext]_vars

\* ------------------------------------------- a held store beside the tools
\* The caller holds the store of a build_knowledge_base call and calls
\* search_documents beside it.
BesideNext == BuildKnowledgeBase \/ SearchDocuments \/ Respond

BesideSpec == Init /\ [][BesideNext]_vars

\* ------------------------------------------------------------ properties
Results == ret.results
Sorted(results) ==
    \A i \in 1 .. Len(results) - 1 :
        /\ results[i].distance <= results[i + 1].distance
        /\ results[i].score >= results[i + 1].score

\* C1 (invariant I1): after any sequence of add_documents and clear calls on
\* the store, the corpus, the stored embeddings and the index hold the same
\* number of entries.  Stated for the sequences in which every add_documents
\* returned normally, which are enough to refute it.
I1_CorpusEmbeddingsIndex ==
    ~addFailed =>
        /\ Len(store.documents) = Len(store.embeddings)
        /\ Len(store.embeddings) = Len(store.index.xb)

\* C2: an add_documents that fails leaves the corpus, the stored embeddings
\* and the index as they were before the call.  Stated for the failures of
\* the embedding computation, which are enough to refute it.
AddDocumentsAtomic ==
    [][(ret'.op = "add_documents" /\ ret'.status = "EmbeddingError") =>
            /\ store'.documents = store.documents
            /\ store'.embeddings = store.embeddings
            /\ store'.index.xb = store.index.xb]_vars

\* C3: search_documents on a non-empty document list D with a query that is
\* not blank and top_k = k >= 1 fails only when a library fails, and
\* otherwise returns min(k, |D|) results by non-decreasing distance and
\* non-increasing score, total_documents = |D| and returned_results = the
\* number of results.
SearchDocumentsReturnsMinKD ==
    (/\ ret.op = "search_documents"
     /\ ret.documents # <<>>
     /\ Strip(ret.query) # <<>>
     /\ ret.top_k >= 1) =>
        /\ ret.status = "ok" <=> (ret.faults = <<"none", "none">>)
        /\ ret.status = "ok" =>
            /\ Len(Results) = Min(ret.top_k, Len(ret.documents))
            /\ Sorted(Results)
            /\ ret.total_documents = Len(ret.documents)
            /\ ret.returned_results = Len(Results)

\* C3 witness: a search_documents call with top_k above |D| = 2 that returned
\* two results at different distances.
SearchDocumentsClampedWitness ==
    /\ ret.op = "search_documents"
    /\ ret.status = "ok"
    /\ Len(ret.documents) = 2
    /\ ret.top_k > 2
    /\ Len(Results) = 2
    /\ Results[1].distance < Results[2].distance

\* C4: a search with top_k = k >= 1 on a store filled by one or more
\* add_documents calls returns min(k, corpus size) results.
SearchReturnsMinKCorpus ==
    (/\ ret.op = "search"
     /\ ret.status = "ok"
     /\ ret.top_k >= 1
     /\ ~addFailed
     /\ store.documents # <<>>) =>
        Len(Results) = Min(ret.top_k, Len(store.documents))

\* C5: the vector at index position i is the embedding of the document with
\* insertion id i, and every result of a search carries the text of the
\* document whose own embedding is at the reported distance from the query.
IndexMapsToDocuments ==
    ~addFailed =>
        /\ \A i \in 1 .. Len(store.index.xb) :
               /\ i <= Len(store.documents)
               /\ store.index.xb[i] = Embed(store.documents[i])
        /\ (ret.op = "search" /\ ret.status = "ok") =>
               \A i \in 1 .. Len(Results) :
                   Results[i].distance =
                       SqDist(Embed(Results[i].document), Embed(ret.query))

\* C6: search_documents with an empty or whitespace-only query, or with an
\* empty document list, fails with the validation error before a store is
\* built and before anything is encoded.
SearchDocumentsValidates ==
    (/\ ret.op = "search_documents"
     /\ (Strip(ret.query) = <<>> \/ ret.documents = <<>>)) =>
        /\ ret.status = "ValueError"
        /\ ret.stores_built = 0
        /\ ret.encode_calls = 0
        /\ ret.index_searches = 0

\* C6 witness: a whitespace-only query over a non-empty document list was
\* rejected.
BlankQueryRejectedWitness ==
    /\ ret.op = "search_documents"
    /\ ret.query = Blank
    /\ ret.documents # <<>>
    /\ ret.top_k >= 1
    /\ ret.status = "ValueError"

\* C7: the store's search fails with the validation error, without encoding
\* the query, when the query is empty or whitespace-only, whatever the store
\* holds.  Stated for a store filled without a failure and a top_k >= 1,
\* which are enough to refute it.
StoreSearchRejectsEmptyQuery ==
    (/\ ret.op = "search"
     /\ Strip(ret.query) = <<>>
     /\ ret.top_k >= 1
     /\ ~addFailed
     /\ ~NothingToSearch(store)) =>
        /\ ret.status = "ValueError"
        /\ ret.encode_calls = 0

\* C8: a top_k below 1 is rejected with the validation error by
\* search_documents, find_similar_documents and the store's search before
\* anything is encoded or searched.  Stated for the calls in which the
\* encoder works, which are enough to refute it.
NonPositiveTopKRejected ==
    (/\ ret.op \in {"search_documents", "find_similar_documents", "search"}
     /\ ret.top_k < 1
     /\ \A i \in DOMAIN ret.faults : ret.faults[i] = "none") =>
        /\ ret.status = "ValueError"
        /\ ret.encode_calls = 0
        /\ ret.index_searches = 0

\* C9: a multi_query_search over non-empty queries and documents whose store
\* was built returns one entry per query, keyed query_1 .. query_n, with
\* total_queries = n; the entry of a query whose search failed is an error
\* entry, and every other query was still searched and has its results.
BatchIsolation ==
    (ret.op = "multi_query_search" /\ ret.queries # <<>> /\ ret.documents # <<>>) =>
        /\ ret.status # "ok" => (ret.all_results = <<>> /\ ret.index_searches = 0)
        /\ ret.status = "ok" =>
            /\ DOMAIN ret.all_results = 1 .. Len(ret.queries)
            /\ ret.total_queries = Len(ret.queries)
            /\ \A i \in 1 .. Len(ret.queries) :
                   LET entry == ret.all_results[i]
                   IN  /\ entry.query = ret.queries[i]
                       /\ ret.faults[i] # "none" =>
                              (entry.error /\ entry.results = <<>>)
                       /\ (ret.faults[i] = "none" /\ ret.top_k >= 1) =>
                              /\ ~entry.error
                              /\ Len(entry.results) =
                                     Min(ret.top_k, Len(ret.documents))
                       /\ ~entry.error => Sorted(entry.results)

\* C9 witness: a batch of two queries whose first search failed and whose
\* second returned results.
FailedQueryIsolatedWitness ==
    /\ ret.op = "multi_query_search"
    /\ ret.status = "ok"
    /\ Len(ret.queries) = 2
    /\ ret.faults = <<"encode", "none">>
    /\ ret.all_results[1].error
    /\ ~ret.all_results[2].error
    /\ ret.all_results[2].results # <<>>
    /\ ret.total_queries = 2

\* C10: in a multi_query_search the entry of an empty-string query is an
\* error entry, and the entries of the other queries hold ranked results.
EmptyQueryIsErrorEntry ==
    (ret.op = "multi_query_search" /\ ret.status = "ok") =>
        \A i \in 1 .. Len(ret.queries) :
            ret.queries[i] = <<>> => ret.all_results[i].error

\* What a call leaves of a store besides the loaded encoder.
Contents(s) == [documents |-> s.documents, embeddings |-> s.embeddings, index |-> s.index]

\* C12: after clear() the corpus, the stored embeddings and the index are
\* empty, every search on the cleared store returns an empty list, and every
\* add_documents on it does what it does on a new store whose encoder is
\* loaded (the first document gets id 0, the index is built anew).
ClearResetsStore ==
    ret.op = "clear" =>
        /\ store.documents = <<>>
        /\ store.embeddings = <<>>
        /\ store.index = NewStore.index
        /\ \A query \in QueryTexts, top_k \in TopKs, fault \in SearchFaults, zero \in ZeroK :
               LET r == SearchOn(store, query, top_k, fault, zero, tiePolicy)
               IN  r.status = "ok" /\ r.results = <<>> /\ r.encode_calls = 0
        /\ \A docs \in DocLists, fault \in AddFaults :
               LET fresh == [NewStore EXCEPT !.model = store.model]
                   r == AddDocumentsOn(store, docs, fault)
                   f == AddDocumentsOn(fresh, docs, fault)
               IN  r.status = f.status /\ Contents(r.store) = Contents(f.store)

\* C12 witness: clear() was called on a store that had been filled.
ClearedFilledStoreWitness ==
    /\ ret.op = "clear"
    /\ store.model
    /\ store.documents = <<>>

\* The insertion id (0-based) of the first document of docs that satisfies P.
FirstId(docs, P(_)) ==
    (CHOOSE i \in 1 .. Len(docs) : P(docs[i]) /\ \A j \in 1 .. i - 1 : ~P(docs[j])) - 1

SearchReadOnlyDeterministic ==
    [][(ret'.op = "search" /\ ret' # ret) =>
          /\ Contents(store') = Contents(store)
          /\ (/\ ret'.first # <<>>
              /\ ret'.first[1].status = "ok"
              /\ ret'.status = "ok") => ret'.results = ret'.first[1].results]_vars

\* C15 witness: both calls of a repeated search returned the same two results.
RepeatedSearchWitness ==
    /\ ret.op = "search"
    /\ ret.status = "ok"
    /\ ret.first # <<>>
    /\ ret.first[1].status = "ok"
    /\ Len(ret.first[1].results) >= 2
    /\ Len(ret.results) >= 2

\* C16: every result of a search has a score above 0 and at most 1.0 (10000
\* in units of 0.0001, after rounding) and a distance that is not negative.
ScoresInHalfOpenUnitInterval ==
    ret.op = "search" =>
        \A i \in 1 .. Len(Results) :
            /\ Results[i].score > 0
            /\ Results[i].score <= 10000
            /\ Results[i].distance >= 0

\* |x|
Abs(x) == IF x < 0 THEN -x ELSE x

\* C17: the score of a result is 1/(1 + distance) to the nearest 0.0001, a
\* result at distance 0 has score 1.0, and of two results of one list the one
\* with the smaller or equal distance does not have the smaller score.
ScoreIsInverseOfDistance ==
    ret.op = "search" =>
        /\ \A i \in 1 .. Len(Results) :
               /\ 2 * Abs(Results[i].score * (1 + Results[i].distance) - 10000)
                      <= 1 + Results[i].distance
               /\ Results[i].distance = 0 => Results[i].score = 10000
        /\ \A i \in 1 .. Len(Results), j \in 1 .. Len(Results) :
               Results[i].distance <= Results[j].distance =>
                   Results[i].score >= Results[j].score

\* C17 witness: a search returned a result at distance 0 and, after it, one
\* farther away with a lower score.
ScoresFallWithDistanceWitness ==
    /\ ret.op = "search"
    /\ ret.status = "ok"
    /\ Len(Results) >= 2
    /\ Results[1].distance = 0
    /\ Results[2].distance > 0
    /\ Results[2].score < Results[1].score

\* old is the beginning of new, element for element.
IsPrefix(old, new) ==
    /\ Len(old) <= Len(new)
    /\ SubSeq(new, 1, Len(old)) = old

\* C18: a call on the held store other than clear() keeps the corpus it found
\* as the beginning of the corpus it leaves, and the stored embeddings
\* likewise; a successful add_documents leaves the old corpus followed by its
\* documents in the order given, so a document keeps the position it got.
AppendOnlyGrowth ==
    [][ret'.op \in {"add_documents", "search"} =>
          /\ IsPrefix(store.documents, store'.documents)
          /\ IsPrefix(store.embeddings, store'.embeddings)
          /\ (ret'.op = "add_documents" /\ ret'.status = "ok") =>
                 /\ store'.documents = store.documents \o ret'.documents
                 /\ store'.embeddings = store.embeddings \o Encode(ret'.documents)]_vars

\* C18 witness: a successful add_documents on a store that held another
\* document before.
AppendedToFilledStoreWitness ==
    /\ ret.op = "add_documents"
    /\ ret.status = "ok"
    /\ Len(ret.documents) >= 1
    /\ Len(store.documents) > Len(ret.documents)
    /\ store.documents[1] # store.documents[Len(store.documents)]

\* C19: a search called while an add_documents is running on the same store
\* finds as many documents as the index has vectors.  Stated for an
\* add_documents that began on an empty store, which is enough to refute it.
SearchSeesWholeAdds ==
    [][(/\ ret'.op = "search"
        /\ ret.op = "none"
        /\ adding.pc # "idle"
        /\ Len(store.documents) = Len(adding.docs)) =>
          Len(store.documents) = Len(store.index.xb)]_vars

\* C20: a call of add_documents or search in which the encoder takes longer
\* than the deadline returns TimeoutError and leaves the corpus, the stored
\* embeddings and the index as they were.
EncodeDeadlineKept ==
    [][(/\ ret.op = "none"
        /\ ret'.op \in {"add_documents", "search"}
        /\ ret'.faults = <<"slow">>) =>
          /\ ret'.status = "TimeoutError"
          /\ Contents(store') = Contents(store)]_vars

\* C21: a search_documents call that gets past its checks encodes each batch
\* of texts at most once (the documents, then the query); a failure of the
\* encoder while the store is filled ends the call with that error after the
\* one attempt, without results, and a failure on the query ends it with the
\* error after the two batches.
FailuresSurfaceWithoutRetry ==
    (ret.op = "search_documents" /\ ret.stores_built = 1) =>
        /\ ret.encode_calls <= 2
        /\ ret.faults[1] \in {"load", "encode"} =>
               /\ ret.status = "EmbeddingError"
               /\ ret.results = <<>>
               /\ ret.encode_calls = (IF ret.faults[1] = "encode" THEN 1 ELSE 0)
        /\ ret.faults = <<"none", "encode">> =>
               /\ ret.status = "EmbeddingError"
               /\ ret.results = <<>>
               /\ ret.encode_calls = 2

\* C21 witness: the encoder failed on the documents of a search_documents
\* call and the call ended with the error after one attempt.
EncodeFailureSurfacedWitness ==
    /\ ret.op = "search_documents"
    /\ ret.faults = <<"encode", "none">>
    /\ ret.status = "EmbeddingError"
    /\ ret.encode_calls = 1

\* C22: once a store of the process has the encoder loaded, no later call
\* makes another instance of it.  Stated for calls that succeed after adds
\* that all succeeded, which is enough to refute it.
ModelInstantiatedOnce ==
    [][(/\ ret.op = "none"
        /\ store.model
        /\ ~addFailed
        /\ ret'.op \in {"add_documents", "search", "build_knowledge_base"}
        /\ ret'.status = "ok") =>
          ret'.model_loads = 0]_vars

\* C23: a multi_query_search call that runs its queries builds one store and
\* encodes the documents once and each query once: one encoding more than
\* there are queries.
CorpusEmbeddedOncePerBatch ==
    (ret.op = "multi_query_search" /\ ret.status = "ok") =>
        /\ ret.stores_built = 1
        /\ ret.encode_calls = 1 + Len(ret.queries)

\* C23 witness: two queries were run over one list of documents with three
\* encodings.
TwoQueriesOneBuildWitness ==
    /\ ret.op = "multi_query_search"
    /\ ret.status = "ok"
    /\ Len(ret.queries) = 2
    /\ Len(ret.documents) >= 1
    /\ ret.encode_calls = 3

\* C24: a find_similar_documents call that succeeds echoes the target as it
\* is when it has at most 200 characters, and its first 200 characters
\* followed by "..." when it has more; the documents were searched with the
\* whole target (each distance is the one to the whole target); corpus_size
\* is the number of documents given.
TargetEchoedUpTo200 ==
    (ret.op = "find_similar_documents" /\ ret.status = "ok") =>
        LET target == ret.query
            echoed == ret.target_document
        IN  /\ Len(target) <= 200 => echoed = target
            /\ Len(target) > 200 =>
                   /\ Len(echoed) = 203
                   /\ SubSeq(echoed, 1, 200) = SubSeq(target, 1, 200)
                   /\ SubSeq(echoed, 201, 203) = <<".", ".", ".">>
            /\ \A i \in 1 .. Len(Results) :
                   Results[i].distance =
                       SqDist(Embed(Results[i].document), Embed(target))
            /\ ret.total_documents = Len(ret.documents)

\* C24 witness: a target of 201 characters was echoed cut and searched whole.
LongTargetCutWitness ==
    /\ ret.op = "find_similar_documents"
    /\ ret.status = "ok"
    /\ Len(ret.query) = 201
    /\ Len(ret.target_document) = 203
    /\ Len(Results) >= 1
    /\ Len(ret.documents) = 2

\* C25: a search_documents call, which fills and searches a store of its own,
\* leaves the store the caller holds as it was, and what it returns is what
\* a new store filled with its documents answers to its query, whatever the
\* held store contains and whatever was called before.
StoresShareNothing ==
    [][(ret.op = "none" /\ ret'.op = "search_documents") =>
          /\ store' = store
          /\ ret'.status = "ok" =>
                 LET own == AddDocumentsOn(NewStore, ret'.documents, "none").store
                 IN  ret'.results = SearchOn(own, ret'.query, ret'.top_k, "none",
                                             "empty", tiePolicy).results]_vars

\* C25 witness: search_documents returned results while the held store was
\* filled with other documents.
SearchBesideFilledStoreWitness ==
    /\ ret.op = "search_documents"
    /\ ret.status = "ok"
    /\ Len(Results) >= 1
    /\ Len(store.documents) >= 2
    /\ store.index.built
    /\ store.documents # ret.documents

\* C26: the i-th result of a search has rank i.  Stated for stores on which
\* no add_documents has failed, which is enough to refute it.
RanksConsecutive ==
    (ret.op = "search" /\ ~addFailed) =>
        \A i \in 1 .. Len(Results) : Results[i].rank = i

\* C27: add_documents([]) leaves the store as it was, create_rag_store([])
\* gives a new empty store, and a search on a store without documents
\* answers [] for every query and top_k; none of them calls the encoder or
\* ends in an error.
EmptyInputsAreNoOps ==
    [][ret.op = "none" =>
          /\ (ret'.op = "add_documents" /\ ret'.documents = <<>>) =>
                 /\ store' = store
                 /\ ret'.status = "ok"
                 /\ ret'.encode_calls = 0
          /\ (ret'.op = "search" /\ store.documents = <<>>) =>
                 /\ store' = store
                 /\ ret'.status = "ok"
                 /\ ret'.results = <<>>
                 /\ ret'.encode_calls = 0
          /\ CreateRagStore(<<>>, "none") =
                 [store |-> NewStore, status |-> "ok", encode_calls |-> 0]]_vars

\* C27 witness: a search for "a" with top_k >= 1 on a store that had been
\* used and holds no document.
SearchOnEmptiedStoreWitness ==
    /\ ret.op = "search"
    /\ ret.query = A
    /\ ret.top_k >= 1
    /\ store.model
    /\ store.documents = <<>>
    /\ ret.results = <<>>

\* C28: call_tool returns one TextContent for every name and arguments: the
\* JSON text of the result when the tool returned, and a text that begins
\* "Error executing <name>:" when the name is unknown or the tool raised.
CallToolAlwaysAnswers ==
    ret.op = "call_tool" =>
        /\ Len(ret.content) = 1
        /\ ret.content[1].type = "text"
        /\ ret.status = "ok" => ret.content[1].text[1] = "json"
        /\ (ret.status # "ok" \/ ret.name \notin ToolNames) =>
               SubSeq(ret.content[1].text, 1, 3) = <<"Error executing ", ret.name, ": ">>

\* C28 witness: rag_search was called without its documents and call_tool
\* answered with the error text.
MissingKeyAnsweredWitness ==
    /\ ret.op = "call_tool"
    /\ ret.name = "rag_search"
    /\ ret.status = "KeyError"
    /\ Len(ret.content) = 1

\* C29: classify_batch_emails returns one result per email, in the order
\* given, the i-th (0-based) with email_index i; an email that is empty or
\* all blanks gives intent "error" with confidence 0.0 and the others are
\* classified all the same; total_emails is the number of emails and the
\* counts of intent_distribution add up to it.
BatchIsolatesFailures ==
    ret.op = "classify_batch_emails" =>
        /\ ret.status = "ok"
        /\ Len(Results) = Len(ret.emails)
        /\ \A i \in 1 .. Len(Results) :
               /\ Results[i].email_index = i - 1
               /\ (\A k \in 1 .. Len(ret.emails[i]) : ret.emails[i][k] = " ") =>
                      Results[i].intent = "error" /\ Results[i].confidence = 0
               /\ (\E k \in 1 .. Len(ret.emails[i]) : ret.emails[i][k] # " ") =>
                      Results[i].intent # "error" /\ Results[i].confidence > 0
        /\ ret.total_emails = Len(ret.emails)
        /\ SumOf(ret.intent_distribution, DOMAIN ret.intent_distribution)
               = Len(ret.emails)

\* C29 witness: a batch whose first email is empty and whose second is
\* classified.
EmptyEmailBesideOthersWitness ==
    /\ ret.op = "classify_batch_emails"
    /\ Len(ret.emails) >= 2
    /\ ret.emails[1] = <<>>
    /\ Results[1].intent = "error"
    /\ Results[2].intent = "request"
    /\ Results[2].email_index = 1

\* C30: the severity is "severe" with score 3 only for 8 or more detections
\* with a coverage of at least 15 percent; the score is 0 exactly when there
\* is no detection; with an image area that is not positive the density and
\* the coverage are 0 and nothing is divided; the cleanup priority is low,
\* medium or high as the level is clean, moderate or severe.
SeverityClassified ==
    ret.op = "analyze_area_severity" =>
        LET args == ret.arguments.items
            count == IF args.detection_count = <<>> THEN 0 ELSE args.detection_count[1]
            area == IF args.image_area = <<>> THEN 1 ELSE args.image_area[1]
            sev == ret.severity[1]
        IN  /\ (sev.level = "severe" \/ sev.score = 3) =>
                   /\ sev.level = "severe" /\ sev.score = 3
                   /\ count >= 8
                   /\ sev.coverage_percent >= 1500
            /\ sev.score = 0 <=> count = 0
            /\ area <= 0 => sev.density = 0 /\ sev.coverage_percent = 0
            /\ sev.level \in {"clean", "moderate", "severe"}
            /\ sev.level = "clean" => ret.cleanup_priority = "low"
            /\ sev.level = "moderate" => ret.cleanup_priority = "medium"
            /\ sev.level = "severe" => ret.cleanup_priority = "high"

\* C30 witness: 8 detections covering 15 percent of the image are severe
\* with priority high.
SevereAtThresholdsWitness ==
    /\ ret.op = "analyze_area_severity"
    /\ ret.arguments.items.detection_count = <<8>>
    /\ ret.severity[1].coverage_percent = 1500
    /\ ret.severity[1].level = "severe"
    /\ ret.cleanup_priority = "high"

====
